---- MODULE Spec2Model ----
(***************************************************************************)
(* The POST /haiku pipeline of commits-fall-like-leaves:                   *)
(*   postHaiku (internal/api)  ->  HaikuService.CreateHaiku                *)
(*   ->  BedrockClient.InvokeClaude  ->  BedrockRuntime.InvokeModel        *)
(* together with BedrockClient.handleBedrockError.                         *)
(*                                                                         *)
(* Go strings are TLA+ strings.  float64 temperatures are integers in      *)
(* tenths (0.7 is 7, 1.0 is 10, 1.5 is 15).  A []byte JSON document is the *)
(* JSON value it denotes (JBad for a document json.Unmarshal rejects with  *)
(* a syntax error).  A Go error is a record naming the sentinel it is or   *)
(* wraps (%w), whether it is the sentinel itself, and its Error() text.    *)
(* In a string, "^" stands for a byte that is not part of any valid UTF-8  *)
(* sequence (0xff) and "?" for U+FFFD, the replacement character, which is *)
(* three bytes long in UTF-8; every other character is one byte.           *)
(***************************************************************************)
EXTENDS Integers, Sequences, FiniteSets, TLC

VARIABLES
    pc,          \* "idle" | "transport" (InvokeModel pending) | "done" | "panicked"
    entry,       \* which operation the caller invoked: "handler" | "service" | "client"
    httpBody,    \* the inbound HTTP body (handler entry)
    given,       \* the HaikuCommitRequest the caller of CreateHaiku passed
    request,     \* the caller's HaikuCommitRequest as CreateHaiku leaves it
    prompt,      \* the prompt given to InvokeClaude
    opts,        \* the *ClaudeOptions given to InvokeClaude
    inflight,    \* the InvokeModelInput of the pending / last transport call
    calls,       \* InvokeModel invocations made for the current request
    outcome,     \* what InvokeModel returned
    clientRes,   \* InvokeClaude's return value
    serviceRes,  \* CreateHaiku's return value
    httpRes,     \* the response postHaiku wrote
    served,      \* requests completed so far
    prev,        \* history: the previous call, as its caller saw it
    ctx,         \* the context.Context of the caller, and whether it is done
    transportCtx \* the context.Context InvokeModel was called with

vars == <<pc, entry, httpBody, given, request, prompt, opts, inflight, calls, outcome,
          clientRes, serviceRes, httpRes, served, prev, ctx, transportCtx>>

----------------------------------------------------------------------------
\* Bounds of the model

MaxRequests == 2

----------------------------------------------------------------------------
\* Program constants

DefaultMaxTokens == 500

\* 0.7, in tenths
DefaultTemperature == 7

\* 1.0, in tenths: the upper limit of the temperature check
TemperatureOne == 10

ClaudeModelID == "global.anthropic.claude-haiku-4-5-20251001-v1:0"

ValidationExceptionCode == "ValidationException"
ResourceNotFoundExceptionCode == "ResourceNotFoundException"
ThrottlingExceptionCode == "ThrottlingException"
ServiceQuotaExceededExceptionCode == "ServiceQuotaExceededException"
AccessDeniedExceptionCode == "AccessDeniedException"
InternalServerExceptionCode == "InternalServerException"

MoodHumerous == "humorous"
MoodReflective == "reflective"
MoodTechnical == "technical"

\* The first line of the system instruction stands for the whole constant.
HaikuSystemPrompt == "You are a poetic assistant that writes concise haiku inspired by software commit messages."

StatusOK == 200
StatusBadRequest == 400
StatusInternalServerError == 500

\* internal/api constants that postHaiku uses
MaxCommitLength == 500
InvalidRequest == "invalid request"
InternalServerError == "internal server error"

----------------------------------------------------------------------------
\* Strings

RECURSIVE Repeat(_, _)
Repeat(s, n) ==
    IF n = 0 THEN ""
    ELSE IF n % 2 = 0 THEN LET h == Repeat(s, n \div 2) IN h \o h
    ELSE s \o Repeat(s, n - 1)

\* strings.Contains
Contains(s, sub) ==
    \E i \in 1..(Len(s) - Len(sub) + 1) : SubSeq(s, i, i + Len(sub) - 1) = sub

\* a byte that is not valid UTF-8, and utf8.RuneError
BadByte == "^"
RuneError == "?"

\* what encoding/json makes of a Go string on either way: "String values
\* encode as JSON strings coerced to valid UTF-8, replacing invalid bytes with
\* the Unicode replacement rune", and the same on decoding
RECURSIVE ToValidUTF8(_)
ToValidUTF8(s) ==
    IF Len(s) = 0 THEN ""
    ELSE IF Len(s) = 1 THEN (IF s = BadByte THEN RuneError ELSE s)
    ELSE LET h == Len(s) \div 2
         IN ToValidUTF8(SubSeq(s, 1, h)) \o ToValidUTF8(SubSeq(s, h + 1, Len(s)))

\* the builtin len of a Go string: its length in bytes
ByteLen(s) == Len(s) + 2 * Cardinality({i \in 1..Len(s) : SubSeq(s, i, i) = RuneError})

----------------------------------------------------------------------------
\* JSON values

NoFields == [k \in {} |-> 0]
JBad == [j |-> "bad", s |-> "", n |-> 0, a |-> <<>>, o |-> NoFields]
JNull == [j |-> "null", s |-> "", n |-> 0, a |-> <<>>, o |-> NoFields]
JNum(num) == [j |-> "num", s |-> "", n |-> num, a |-> <<>>, o |-> NoFields]
JStr(str) == [j |-> "str", s |-> str, n |-> 0, a |-> <<>>, o |-> NoFields]
JArr(seq) == [j |-> "arr", s |-> "", n |-> 0, a |-> seq, o |-> NoFields]
JObj(rec) == [j |-> "obj", s |-> "", n |-> 0, a |-> <<>>, o |-> rec]

\* the value of a key of a JSON object, JNull when the key is absent
Field(obj, key) == IF key \in DOMAIN obj.o THEN obj.o[key] ELSE JNull

\* encoding/json into a Go string field: absent or null leaves "", a string is
\* stored, anything else is an UnmarshalTypeError
StringFieldOK(v) == v.j \in {"null", "str"}
StringField(v) == IF v.j = "str" THEN ToValidUTF8(v.s) ELSE ""

\* json.Marshal of a Go string
MarshalString(s) == JStr(ToValidUTF8(s))

----------------------------------------------------------------------------
\* Errors

\* errors.New(...) of the package-level sentinels
SentinelText(name) ==
    CASE name = "ErrInvalidRequest" -> "invalid request"
      [] name = "ErrModelInvocation" -> "model invocation failed"
      [] name = "ErrResponseParsing" -> "failed to parse model response"
      [] name = "ErrModelUnavailable" -> "model is currently unavailable"
      [] name = "ErrQuotaExceeded" -> "quota exceeded for model invocation"
      [] name = "ErrThrottling" -> "request was throttled"
      [] name = "ErrValidation" -> "validation error"
      [] name = "ErrBadHaikuRequest" -> "bad haiku request received"
      [] name = "ErrCreateHaiku" -> "error creating commit message haiku"

\* the nil error
Nil == [sentinel |-> "nil", wrapped |-> FALSE, text |-> ""]

\* a sentinel returned as it is
Sentinel(name) == [sentinel |-> name, wrapped |-> FALSE, text |-> SentinelText(name)]

\* fmt.Errorf("%w<rest>", sentinel, ...): a new error that wraps the sentinel
\* and whose text is the sentinel's text followed by the formatted rest
Errorf(name, rest) ==
    [sentinel |-> name, wrapped |-> TRUE, text |-> SentinelText(name) \o rest]

\* errors.Is(err, sentinel)
ErrorsIs(err, name) == err.sentinel = name

\* err == sentinel
ErrorsEq(err, name) == err.sentinel = name /\ ~err.wrapped

----------------------------------------------------------------------------
\* internal/clients/bedrock: options and the outbound request

\* *ClaudeOptions: isNil marks the nil pointer
NilOptions == [isNil |-> TRUE, MaxTokens |-> 0, Temperature |-> 0, System |-> ""]

ClaudeOptions(maxTokens, temperature, system) ==
    [isNil |-> FALSE, MaxTokens |-> maxTokens, Temperature |-> temperature,
     System |-> system]

\* variant: no defaults, the zero value of ClaudeOptions
DefaultClaudeOptionsZero == [MaxTokens |-> 0, Temperature |-> 0, System |-> ""]

\* func DefaultClaudeOptions() ClaudeOptions
DefaultClaudeOptions ==
    [MaxTokens |-> DefaultMaxTokens, Temperature |-> DefaultTemperature, System |-> ""]

\* variant: the legacy check, opts.MaxTokens >= 0
MergeMaxTokensNonNegative(o) ==
    IF ~o.isNil /\ o.MaxTokens >= 0 THEN o.MaxTokens
    ELSE DefaultClaudeOptions.MaxTokens

\* if opts.MaxTokens > 0 { options.MaxTokens = opts.MaxTokens }
MergeMaxTokens(o) ==
    IF ~o.isNil /\ o.MaxTokens > 0 THEN o.MaxTokens
    ELSE DefaultClaudeOptions.MaxTokens

\* variant: the upper limit excluded, opts.Temperature < 1.0
MergeTemperatureBelowOne(o) ==
    IF ~o.isNil /\ o.Temperature > 0 /\ o.Temperature < TemperatureOne
    THEN o.Temperature
    ELSE DefaultClaudeOptions.Temperature

\* variant: the legacy check, opts.Temperature >= 0
MergeTemperatureNonNegative(o) ==
    IF ~o.isNil /\ o.Temperature >= 0 /\ o.Temperature <= TemperatureOne
    THEN o.Temperature
    ELSE DefaultClaudeOptions.Temperature

\* if opts.Temperature > 0 && opts.Temperature <= 1.0 { ... }
MergeTemperature(o) ==
    IF ~o.isNil /\ o.Temperature > 0 /\ o.Temperature <= TemperatureOne
    THEN o.Temperature
    ELSE DefaultClaudeOptions.Temperature

\* if opts.System != "" { options.System = opts.System }
MergeSystem(o) ==
    IF ~o.isNil /\ o.System # "" THEN o.System
    ELSE DefaultClaudeOptions.System

MergeOptions(o) ==
    [MaxTokens |-> MergeMaxTokens(o), Temperature |-> MergeTemperature(o),
     System |-> MergeSystem(o)]

\* variant: the system prompt goes first as a message of its own
BuildRequestSystemMessage(p, options) ==
    [MaxTokens |-> options.MaxTokens,
     Messages |-> (IF options.System = "" THEN <<>>
                   ELSE << [Role |-> "system",
                            Content |-> << [Text |-> options.System, Type |-> "text"] >>] >>)
                  \o << [Role |-> "user",
                         Content |-> << [Text |-> p, Type |-> "text"] >>] >>,
     Temperature |-> options.Temperature,
     System |-> ""]

\* request := &ClaudeRequest{...}
BuildRequest(p, options) ==
    [MaxTokens |-> options.MaxTokens,
     Messages |-> << [Role |-> "user",
                      Content |-> << [Text |-> p, Type |-> "text"] >>] >>,
     Temperature |-> options.Temperature,
     System |-> options.System]

MarshalContentBlock(b) ==
    JObj([text |-> MarshalString(b.Text), type |-> MarshalString(b.Type)])

MarshalMessage(m) ==
    JObj([content |-> JArr([i \in 1..Len(m.Content) |-> MarshalContentBlock(m.Content[i])]),
          role |-> MarshalString(m.Role)])

\* json.Marshal(request) with the struct tags of ClaudeRequest: system and
\* temperature are omitempty
Marshal(r) ==
    LET always == [max_tokens |-> JNum(r.MaxTokens),
                   messages |-> JArr([i \in 1..Len(r.Messages) |-> MarshalMessage(r.Messages[i])])]
        sys == IF r.System = "" THEN NoFields ELSE [system |-> MarshalString(r.System)]
        temp == IF r.Temperature = 0 THEN NoFields
                ELSE [temperature |-> JNum(r.Temperature)]
    IN JObj(always @@ sys @@ temp)

NoInput == [ModelId |-> "", ContentType |-> "", Body |-> JNull]

\* &bedrockruntime.InvokeModelInput{...}
InvokeModelInput(p, o) ==
    [ModelId |-> ClaudeModelID,
     ContentType |-> "application/json",
     Body |-> Marshal(BuildRequest(p, MergeOptions(o)))]

\* variant: the prompt check left out
PromptNotChecked(p) == FALSE

\* if prompt == "" { return "", ErrInvalidRequest }
PromptIsEmpty(p) == p = ""

NoResult == [returned |-> FALSE, panicked |-> FALSE, text |-> "", err |-> Nil]
Return(text, err) == [returned |-> TRUE, panicked |-> FALSE, text |-> text, err |-> err]
Panic == [returned |-> FALSE, panicked |-> TRUE, text |-> "", err |-> Nil]

\* InvokeClaude up to the InvokeModel call: either it returns at once
\* (call = FALSE) or it calls the transport with `input`
InvokeClaudeBegin(p, o) ==
    IF PromptIsEmpty(p)
    THEN [call |-> FALSE, input |-> NoInput,
          res |-> Return("", Errorf("ErrInvalidRequest", ": prompt cannot be empty"))]
    ELSE [call |-> TRUE, input |-> InvokeModelInput(p, o), res |-> NoResult]

----------------------------------------------------------------------------
\* internal/clients/bedrock: the error classifier

\* a transport error: api says errors.As finds a smithy.APIError in it;
\* http says what errors.As finds for *smithyhttp.ResponseError
\* ("none", "nilResponse": Response == nil, "response")
NoTransportError ==
    [api |-> FALSE, code |-> "", message |-> "", http |-> "none", status |-> 0,
     requestID |-> "", raw |-> ""]

APIError(code, message, http, status, requestID) ==
    [api |-> TRUE, code |-> code, message |-> message, http |-> http,
     status |-> status, requestID |-> requestID, raw |-> ""]

RawError(text) ==
    [api |-> FALSE, code |-> "", message |-> "", http |-> "none", status |-> 0,
     requestID |-> "", raw |-> text]

\* awsErr.Error() of a smithy.GenericAPIError
APIErrorText(e) == "api error " \o e.code \o ": " \o e.message

\* bedrockErr = &BedrockError{...}; StatusCode from the ResponseError
NewBedrockError(e) ==
    [Message |-> APIErrorText(e),
     StatusCode |-> IF e.http = "response" THEN e.status ELSE 0,
     RequestID |-> e.code]

\* (*BedrockError).Error()
BedrockErrorText(b) ==
    IF b.StatusCode > 0
    THEN "bedrock error (status: " \o ToString(b.StatusCode) \o ", request-id: "
         \o b.RequestID \o "): " \o b.Message
    ELSE "bedrock error: " \o b.Message

\* variant: the kinds of the throttling and quota cases exchanged
ClassifyCodeSwapped(errorCode) ==
    IF Contains(errorCode, ValidationExceptionCode) THEN "ErrValidation"
    ELSE IF Contains(errorCode, ResourceNotFoundExceptionCode) THEN "ErrModelUnavailable"
    ELSE IF Contains(errorCode, ThrottlingExceptionCode) THEN "ErrQuotaExceeded"
    ELSE IF Contains(errorCode, ServiceQuotaExceededExceptionCode) THEN "ErrThrottling"
    ELSE IF Contains(errorCode, AccessDeniedExceptionCode) THEN "ErrValidation"
    ELSE IF Contains(errorCode, InternalServerExceptionCode) THEN "ErrModelInvocation"
    ELSE "ErrModelInvocation"

\* variant: the error code compared for equality
ClassifyCodeExact(errorCode) ==
    IF errorCode = InternalServerExceptionCode THEN "ErrModelInvocation"
    ELSE IF errorCode = AccessDeniedExceptionCode THEN "ErrValidation"
    ELSE IF errorCode = ServiceQuotaExceededExceptionCode THEN "ErrQuotaExceeded"
    ELSE IF errorCode = ThrottlingExceptionCode THEN "ErrThrottling"
    ELSE IF errorCode = ResourceNotFoundExceptionCode THEN "ErrModelUnavailable"
    ELSE IF errorCode = ValidationExceptionCode THEN "ErrValidation"
    ELSE "ErrModelInvocation"

\* the switch over strings.Contains(errorCode, ...): the first case wins
ClassifyCode(errorCode) ==
    IF Contains(errorCode, ValidationExceptionCode) THEN "ErrValidation"
    ELSE IF Contains(errorCode, ResourceNotFoundExceptionCode) THEN "ErrModelUnavailable"
    ELSE IF Contains(errorCode, ThrottlingExceptionCode) THEN "ErrThrottling"
    ELSE IF Contains(errorCode, ServiceQuotaExceededExceptionCode) THEN "ErrQuotaExceeded"
    ELSE IF Contains(errorCode, AccessDeniedExceptionCode) THEN "ErrValidation"
    ELSE IF Contains(errorCode, InternalServerExceptionCode) THEN "ErrModelInvocation"
    ELSE "ErrModelInvocation"

\* variant: an error that is no API error is classified by its text
handleBedrockErrorByText(e) ==
    IF e.api
    THEN Errorf(ClassifyCode(e.code), ": " \o BedrockErrorText(NewBedrockError(e)))
    ELSE Errorf(ClassifyCode(e.raw), ": " \o e.raw)

\* variant: an error that is no API error is returned as it came
handleBedrockErrorUnwrapped(e) ==
    IF e.api
    THEN Errorf(ClassifyCode(e.code), ": " \o BedrockErrorText(NewBedrockError(e)))
    ELSE [sentinel |-> "transport", wrapped |-> FALSE, text |-> e.raw]

\* func (c *BedrockClient) handleBedrockError(err error) error
handleBedrockError(e) ==
    IF e.api
    THEN Errorf(ClassifyCode(e.code), ": " \o BedrockErrorText(NewBedrockError(e)))
    ELSE Errorf("ErrModelInvocation", ": " \o e.raw)

----------------------------------------------------------------------------
\* internal/clients/bedrock: the response

\* json.Unmarshal into a ContentBlock
BlockOK(v) ==
    \/ v.j = "null"
    \/ /\ v.j = "obj"
       /\ StringFieldOK(Field(v, "text"))
       /\ StringFieldOK(Field(v, "type"))

Block(v) ==
    IF v.j = "obj"
    THEN [Text |-> StringField(Field(v, "text")), Type |-> StringField(Field(v, "type"))]
    ELSE [Text |-> "", Type |-> ""]

\* json.Unmarshal(output.Body, &response) for ClaudeResponse{Content []ContentBlock}
UnmarshalOK(body) ==
    \/ body.j = "null"
    \/ /\ body.j = "obj"
       /\ LET c == Field(body, "content")
          IN \/ c.j = "null"
             \/ /\ c.j = "arr"
                /\ \A i \in 1..Len(c.a) : BlockOK(c.a[i])

\* the text of the error json.Unmarshal returns
UnmarshalErrorText(body) ==
    IF body.j = "bad" THEN "unexpected end of JSON input"
    ELSE "json: cannot unmarshal value into Go value of type bedrock.ClaudeResponse"

Unmarshal(body) ==
    LET c == Field(body, "content")
    IN [Content |-> IF body.j = "obj" /\ c.j = "arr"
                    THEN [i \in 1..Len(c.a) |-> Block(c.a[i])]
                    ELSE <<>>]

\* variant: the text of the first block of type "text"
RECURSIVE FirstTextBlock(_)
FirstTextBlock(blocks) ==
    IF Len(blocks) = 0 THEN Panic
    ELSE IF blocks[1].Type = "text" THEN Return(blocks[1].Text, Nil)
    ELSE FirstTextBlock(Tail(blocks))

FirstTypedBlockText(response) == FirstTextBlock(response.Content)

\* what InvokeClaude does with a response it could decode:
\* return response.Content[0].Text, nil
FirstBlockText(response) ==
    IF Len(response.Content) = 0 THEN Panic
    ELSE Return(response.Content[1].Text, Nil)

\* variant: the sentinel of the marshalling branch, ErrInvalidRequest
ParseFailureAsInvalidRequest(body) ==
    Return("", Errorf("ErrInvalidRequest", ": " \o UnmarshalErrorText(body)))

\* what InvokeClaude does with a body json.Unmarshal rejects
ParseFailure(body) ==
    Return("", Errorf("ErrResponseParsing", ": " \o UnmarshalErrorText(body)))

\* a transport outcome: failed with error, or a body
TransportError(e) == [set |-> TRUE, failed |-> TRUE, error |-> e, Body |-> JNull]
TransportBody(body) ==
    [set |-> TRUE, failed |-> FALSE, error |-> NoTransportError, Body |-> body]
NoOutcome == [set |-> FALSE, failed |-> FALSE, error |-> NoTransportError, Body |-> JNull]

\* InvokeClaude from the return of InvokeModel on
InvokeClaudeEnd(out) ==
    IF out.failed THEN Return("", handleBedrockError(out.error))
    ELSE IF ~UnmarshalOK(out.Body) THEN ParseFailure(out.Body)
    ELSE FirstBlockText(Unmarshal(out.Body))

----------------------------------------------------------------------------
\* internal/service/haiku

\* HaikuCommitRequest
HaikuCommitRequest(commitMessage, mood) ==
    [CommitMessage |-> commitMessage, Mood |-> mood]

\* func (m Mood) IsValid() bool
IsValid(m) == m \in {MoodHumerous, MoodReflective, MoodTechnical}

\* variant: mood == "" in place of mood != ""
MoodRejectedWhenEmpty(req) == req.Mood = "" /\ ~IsValid(req.Mood)

\* if mood != "" && !mood.IsValid() { return ..., ErrBadHaikuRequest }
MoodRejected(req) == req.Mood # "" /\ ~IsValid(req.Mood)

\* variant: no default, the mood is used as given
EffectiveMoodAsGiven(req) == req.Mood

\* if request.Mood == "" { mood = MoodReflective }
EffectiveMood(req) == IF req.Mood = "" THEN MoodReflective ELSE req.Mood

\* variant: the commit message alone is the prompt
HaikuPromptBare(req) == req.CommitMessage

\* variant: the commit message loses its last character when that is "e"
HaikuPromptTrimmed(req) ==
    "Create a " \o EffectiveMood(req) \o " haiku from this commit message: "
    \o (IF Len(req.CommitMessage) > 0
           /\ SubSeq(req.CommitMessage, Len(req.CommitMessage), Len(req.CommitMessage)) = "e"
        THEN SubSeq(req.CommitMessage, 1, Len(req.CommitMessage) - 1)
        ELSE req.CommitMessage)

\* fmt.Sprintf("Create a %s haiku from this commit message: %s", mood, request.CommitMessage)
HaikuPrompt(req) ==
    "Create a " \o EffectiveMood(req) \o " haiku from this commit message: "
    \o req.CommitMessage

\* variant: the system prompt goes out with the first request of the process
\* only
HaikuOptionsFirstOnly ==
    IF served > 0 THEN ClaudeOptions(0, 0, "") ELSE ClaudeOptions(0, 0, HaikuSystemPrompt)

\* options := &bedrock.ClaudeOptions{System: HaikuSystemPrompt}
HaikuOptions == ClaudeOptions(0, 0, HaikuSystemPrompt)

\* CreateHaiku up to the InvokeClaude call
CreateHaikuBegin(req) ==
    IF MoodRejected(req)
    THEN [call |-> FALSE, prompt |-> "", options |-> NilOptions,
          res |-> Return("", Sentinel("ErrBadHaikuRequest"))]
    ELSE [call |-> TRUE, prompt |-> HaikuPrompt(req), options |-> HaikuOptions,
          res |-> NoResult]

\* variant: a client error rejected by the client as invalid input is passed
\* on as a bad request, any other one as a failed generation
CreateHaikuEndByKind(c) ==
    IF c.panicked THEN Panic
    ELSE IF c.err # Nil
    THEN IF c.err.sentinel \in {"ErrInvalidRequest", "ErrValidation"}
         THEN Return("", Sentinel("ErrBadHaikuRequest"))
         ELSE Return("", Errorf("ErrCreateHaiku", ": invoking Claude: " \o c.err.text))
    ELSE Return(c.text, Nil)

\* variant: an empty text from the client counts as a failed generation
CreateHaikuEndRejectsEmpty(c) ==
    IF c.panicked THEN Panic
    ELSE IF c.err # Nil
    THEN Return("", Errorf("ErrCreateHaiku", ": invoking Claude: " \o c.err.text))
    ELSE IF c.text = ""
    THEN Return("", Errorf("ErrCreateHaiku", ": empty haiku"))
    ELSE Return(c.text, Nil)

\* CreateHaiku from the return of InvokeClaude on; a panic of the client
\* unwinds through it
CreateHaikuEnd(c) ==
    IF c.panicked THEN Panic
    ELSE IF c.err # Nil
    THEN Return("", Errorf("ErrCreateHaiku", ": invoking Claude: " \o c.err.text))
    ELSE Return(c.text, Nil)

----------------------------------------------------------------------------
\* internal/api

NoRequest == HaikuCommitRequest("", "")

\* c.ShouldBindJSON(&request): decode the body, then validate binding:"required"
BindDecodeOK(body) ==
    \/ body.j = "null"
    \/ /\ body.j = "obj"
       /\ StringFieldOK(Field(body, "commitMessage"))
       /\ StringFieldOK(Field(body, "mood"))

BindDecode(body) ==
    HaikuCommitRequest(StringField(Field(body, "commitMessage")),
                       StringField(Field(body, "mood")))

\* variant: no binding:"required" tag on CommitMessage
BindNothingRequired(req) == TRUE

\* validation of the tag binding:"required" on CommitMessage
BindRequiredOK(req) == req.CommitMessage # ""

ShouldBindJSON(body) ==
    IF ~BindDecodeOK(body)
    THEN [ok |-> FALSE, req |-> NoRequest,
          text |-> IF body.j = "bad" THEN "invalid character 'i' looking for beginning of value"
                   ELSE "json: cannot unmarshal value into Go value of type haiku.HaikuCommitRequest"]
    ELSE IF ~BindRequiredOK(BindDecode(body))
    THEN [ok |-> FALSE, req |-> BindDecode(body),
          text |-> "Key: 'HaikuCommitRequest.CommitMessage' Error:Field validation for 'CommitMessage' failed on the 'required' tag"]
    ELSE [ok |-> TRUE, req |-> BindDecode(body), text |-> ""]

\* if len(request.CommitMessage) > MaxCommitLength
CommitTooLong(req) == ByteLen(req.CommitMessage) > MaxCommitLength

NoResponse == [written |-> FALSE, status |-> 0, body |-> NoFields]

\* c.JSON(status, body)
JSON(status, body) == [written |-> TRUE, status |-> status, body |-> body]

\* gin.H{"error": InvalidRequest, "details": ...} with http.StatusBadRequest
BadRequest(details) == JSON(StatusBadRequest, [error |-> InvalidRequest, details |-> details])

\* postHaiku up to the CreateHaiku call
postHaikuBegin(body) ==
    LET b == ShouldBindJSON(body)
    IN IF ~b.ok THEN [call |-> FALSE, req |-> NoRequest, res |-> BadRequest(b.text)]
       ELSE IF CommitTooLong(b.req)
       THEN [call |-> FALSE, req |-> NoRequest,
             res |-> BadRequest("commitMessage exceeds " \o ToString(MaxCommitLength)
                                \o " characters")]
       ELSE [call |-> TRUE, req |-> b.req, res |-> NoResponse]

\* variant: the ErrBadHaikuRequest branch left out
postHaikuEndAllInternal(r) ==
    IF r.panicked THEN NoResponse
    ELSE IF r.err # Nil
    THEN JSON(StatusInternalServerError, [error |-> InternalServerError])
    ELSE JSON(StatusOK, [haiku |-> r.text])

\* variant: the 500 response carries err.Error() as details
postHaikuEndWithDetails(r) ==
    IF r.panicked THEN NoResponse
    ELSE IF r.err # Nil
    THEN IF ErrorsEq(r.err, "ErrBadHaikuRequest")
         THEN BadRequest(r.err.text)
         ELSE JSON(StatusInternalServerError,
                   [error |-> InternalServerError, details |-> r.err.text])
    ELSE JSON(StatusOK, [haiku |-> r.text])

\* postHaiku from the return of CreateHaiku on; a panic below writes nothing
postHaikuEnd(r) ==
    IF r.panicked THEN NoResponse
    ELSE IF r.err # Nil
    THEN IF ErrorsEq(r.err, "ErrBadHaikuRequest")
         THEN BadRequest(r.err.text)
         ELSE JSON(StatusInternalServerError, [error |-> InternalServerError])
    ELSE JSON(StatusOK, [haiku |-> r.text])

----------------------------------------------------------------------------
\* The inputs the callers and the transport draw from

CommitMessages ==
    {"", "fix: resolved login issue", Repeat("a", MaxCommitLength),
     Repeat("a", MaxCommitLength + 1)}

Moods == {"", MoodHumerous, MoodReflective, MoodTechnical, "silly", "Reflective"}

HTTPBodies ==
    {JBad, JNull, JArr(<<>>), JObj(NoFields)}
    \cup {JObj([commitMessage |-> JStr(cm), mood |-> JStr(m)]) :
              cm \in CommitMessages, m \in Moods}
    \cup {JObj([commitMessage |-> JStr(cm)]) : cm \in CommitMessages}
    \cup {JObj([mood |-> JStr(m)]) : m \in Moods}
    \cup {JObj([commitMessage |-> JNum(1)]),
          JObj([commitMessage |-> JNull, mood |-> JStr(MoodTechnical)]),
          JObj([commitMessage |-> JStr("fix: resolved login issue"), mood |-> JNum(1)]),
          JObj([commitMessage |-> JStr("fix: resolved login issue"), mood |-> JNull]),
          JObj([commitMessage |-> JStr("caf" \o BadByte)]),
          JObj([commitMessage |-> JStr(Repeat("a", MaxCommitLength - 1) \o RuneError)]),
          JObj([commitMessage |-> JStr(Repeat("a", MaxCommitLength - 3) \o RuneError)])}

Requests == {HaikuCommitRequest(cm, m) : cm \in CommitMessages, m \in Moods}

Prompts == {"", "Hello, world!", "caf" \o BadByte}

MaxTokensValues == {-1, 0, 1, 100, DefaultMaxTokens}

TemperatureValues == {-5, 0, 1, 5, TemperatureOne, TemperatureOne + 1, 15}

SystemValues == {"", "Answer in one line."}

Options ==
    {NilOptions}
    \cup {ClaudeOptions(mt, t, sy) :
              mt \in MaxTokensValues, t \in TemperatureValues, sy \in SystemValues}

ErrorCodes ==
    {ValidationExceptionCode, ResourceNotFoundExceptionCode, ThrottlingExceptionCode,
     ServiceQuotaExceededExceptionCode, AccessDeniedExceptionCode,
     InternalServerExceptionCode, "UnknownError", "", "throttlingexception",
     "com.amazonaws#ThrottlingException",
     "ServiceQuotaExceededException:ValidationException",
     "ThrottlingExceptionV2", "InternalServerException/ResourceNotFoundException",
     "VALIDATIONEXCEPTION"}

TransportErrors ==
    {APIError(code, "Too many requests", "none", 0, "") : code \in ErrorCodes}
    \cup {APIError(code, "Too many requests", "response", 429, "req-1") :
              code \in {ThrottlingExceptionCode, ValidationExceptionCode, "UnknownError"}}
    \cup {APIError(ThrottlingExceptionCode, "Too many requests", "nilResponse", 0, "req-1")}
    \cup {RawError("context canceled"), RawError("context deadline exceeded"),
          RawError("dial tcp: connection refused ThrottlingException")}

TextBlock(text) == JObj([text |-> JStr(text), type |-> JStr("text")])

ResponseBodies ==
    {JBad, JNull, JNum(1), JArr(<<>>), JObj(NoFields),
     JObj([content |-> JNull]),
     JObj([content |-> JArr(<<>>)]),
     JObj([content |-> JStr("haiku")]),
     JObj([content |-> JArr(<<JStr("haiku")>>)]),
     JObj([content |-> JArr(<<JObj([text |-> JNum(1)])>>)]),
     JObj([content |-> JArr(<<JNull>>)]),
     JObj([content |-> JArr(<<TextBlock("")>>)]),
     JObj([content |-> JArr(<<TextBlock("Code changes merged")>>)]),
     JObj([content |-> JArr(<<TextBlock("Hello, world!")>>)]),
     JObj([content |-> JArr(<<TextBlock("caf" \o BadByte)>>)]),
     JObj([content |-> JArr(<<JObj([text |-> JStr("thinking"), type |-> JStr("other")]),
                              TextBlock("Code changes merged")>>)]),
     JObj([completion |-> JStr("Code changes merged")])}

Outcomes ==
    {TransportError(e) : e \in TransportErrors}
    \cup {TransportBody(b) : b \in ResponseBodies}

----------------------------------------------------------------------------
\* The state machine

\* a context.Context: which one it is, and the cause it is done with ("" while
\* it is live)
Context(id) == [id |-> id, done |-> ""]
NoContext == Context("none")

\* ctx.Err() of a context that is done
ContextCauses == {"context canceled", "context deadline exceeded"}

\* c.Request.Context() in postHaiku
RequestContext == "request"

\* variant: CreateHaiku calls the client with context.Background()
ServiceContextBackground(c) == "background"

\* the context CreateHaiku gives InvokeClaude: s.bedrockClient.InvokeClaude(ctx, ...)
ServiceContext(c) == c

\* the context InvokeClaude gives InvokeModel: c.client.InvokeModel(ctx, ...)
ClientContext(c) == c

\* the transport ended the call because its context was done
IsContextError(out) == out.failed /\ ~out.error.api /\ out.error.raw \in ContextCauses

\* the history variable: no call yet, or what an earlier call was given and gave
NoCall ==
    [set |-> FALSE, entry |-> "none", httpBody |-> JNull, request |-> NoRequest,
     prompt |-> "",
     opts |-> NilOptions, inflight |-> NoInput, outcome |-> NoOutcome,
     clientRes |-> NoResult, serviceRes |-> NoResult, httpRes |-> NoResponse]

ThisCall ==
    [set |-> TRUE, entry |-> entry, httpBody |-> httpBody, request |-> request,
     prompt |-> prompt,
     opts |-> opts, inflight |-> inflight, outcome |-> outcome,
     clientRes |-> clientRes, serviceRes |-> serviceRes, httpRes |-> httpRes]

Init ==
    /\ pc = "idle"
    /\ entry = "none"
    /\ httpBody = JNull
    /\ given = NoRequest
    /\ request = NoRequest
    /\ prompt = ""
    /\ opts = NilOptions
    /\ inflight = NoInput
    /\ calls = 0
    /\ outcome = NoOutcome
    /\ clientRes = NoResult
    /\ serviceRes = NoResult
    /\ httpRes = NoResponse
    /\ served = 0
    /\ prev = NoCall
    /\ ctx = NoContext
    /\ transportCtx = "none"

\* where the call stands once the layers above the client have returned
After(res) == IF res.panicked THEN "panicked" ELSE "done"

\* InvokeClaude(ctx, p, o) is entered: it returns at once or calls InvokeModel
EnterInvokeClaude(cx, p, o) ==
    LET c == InvokeClaudeBegin(p, o)
    IN /\ transportCtx' = IF c.call THEN ClientContext(cx) ELSE transportCtx
       /\ prompt' = p
       /\ opts' = o
       /\ clientRes' = c.res
       /\ inflight' = c.input
       /\ calls' = IF c.call THEN calls + 1 ELSE calls

\* variant: the defaulted mood is written back to the request
CallerRequestDefaulted(req) == [req EXCEPT !.Mood = EffectiveMood(req)]

\* the caller's record once CreateHaiku is through with it: request is a
\* value parameter and "mood := request.Mood" defaults a local
CallerRequest(req) == req

\* CreateHaiku(ctx, req) is entered
EnterCreateHaiku(cx, req) ==
    LET s == CreateHaikuBegin(req)
    IN /\ given' = req
       /\ request' = CallerRequest(req)
       /\ IF s.call
          THEN /\ EnterInvokeClaude(ServiceContext(cx), s.prompt, s.options)
               /\ serviceRes' = IF clientRes'.returned THEN CreateHaikuEnd(clientRes')
                                ELSE NoResult
          ELSE /\ UNCHANGED <<prompt, opts, clientRes, inflight, calls, transportCtx>>
               /\ serviceRes' = s.res

\* a caller invokes the client directly
CallInvokeClaude(p, o) ==
    /\ pc = "idle"
    /\ entry' = "client"
    /\ ctx' = Context("caller")
    /\ EnterInvokeClaude(ctx'.id, p, o)
    /\ pc' = IF clientRes'.returned THEN "done" ELSE "transport"
    /\ UNCHANGED <<httpBody, given, request, outcome, serviceRes, httpRes, served, prev>>

\* a caller invokes the service directly
CallCreateHaiku(req) ==
    /\ pc = "idle"
    /\ entry' = "service"
    /\ ctx' = Context("caller")
    /\ EnterCreateHaiku(ctx'.id, req)
    /\ pc' = IF serviceRes'.returned THEN "done" ELSE "transport"
    /\ UNCHANGED <<httpBody, outcome, httpRes, served, prev>>

\* POST /haiku arrives with the given body
PostHaiku(body) ==
    /\ pc = "idle"
    /\ entry' = "handler"
    /\ ctx' = Context(RequestContext)
    /\ httpBody' = body
    /\ LET h == postHaikuBegin(body)
       IN IF h.call
          THEN /\ EnterCreateHaiku(ctx'.id, h.req)
               /\ httpRes' = IF serviceRes'.returned THEN postHaikuEnd(serviceRes')
                             ELSE NoResponse
               /\ pc' = IF serviceRes'.returned THEN "done" ELSE "transport"
          ELSE /\ httpRes' = h.res
               /\ pc' = "done"
               /\ UNCHANGED <<given, request, prompt, opts, clientRes, inflight, calls,
                              serviceRes, transportCtx>>
    /\ UNCHANGED <<outcome, served, prev>>

\* variant: a throttled call is made once more
RetryAfterThrottling(out) ==
    /\ out.failed
    /\ out.error.api
    /\ out.error.code = ThrottlingExceptionCode
    /\ calls < 2

\* whether InvokeClaude calls InvokeModel again after this outcome: it has no
\* loop, "if err != nil { return "", c.handleBedrockError(err) }"
RetryAfter(out) == FALSE

\* InvokeModel returns: InvokeClaude, and the layers that called it, run to
\* their end
InvokeModelReturns(out) ==
    /\ pc = "transport"
    /\ IsContextError(out) => (transportCtx = ctx.id /\ out.error.raw = ctx.done)
    /\ outcome' = out
    /\ IF RetryAfter(out)
       THEN /\ calls' = calls + 1
            /\ UNCHANGED <<pc, clientRes, serviceRes, httpRes>>
       ELSE /\ clientRes' = InvokeClaudeEnd(out)
            /\ serviceRes' = IF entry \in {"service", "handler"}
                             THEN CreateHaikuEnd(clientRes')
                             ELSE serviceRes
            /\ httpRes' = IF entry = "handler" THEN postHaikuEnd(serviceRes') ELSE httpRes
            /\ pc' = After(clientRes')
            /\ UNCHANGED calls
    /\ UNCHANGED <<entry, httpBody, given, request, prompt, opts, inflight, served, prev,
                   ctx, transportCtx>>

\* the call is over; the process waits for the next one with nothing kept
Reset ==
    /\ pc \in {"done", "panicked"}
    /\ served < MaxRequests
    /\ pc' = "idle"
    /\ entry' = "none"
    /\ httpBody' = JNull
    /\ given' = NoRequest
    /\ request' = NoRequest
    /\ prompt' = ""
    /\ opts' = NilOptions
    /\ inflight' = NoInput
    /\ calls' = 0
    /\ outcome' = NoOutcome
    /\ clientRes' = NoResult
    /\ serviceRes' = NoResult
    /\ httpRes' = NoResponse
    /\ served' = served + 1
    /\ ctx' = NoContext
    /\ transportCtx' = "none"

\* the caller's context is cancelled, or its deadline passes, while the
\* transport call is pending
ContextDone(cause) ==
    /\ pc = "transport"
    /\ ctx.done = ""
    /\ ctx' = [ctx EXCEPT !.done = cause]
    /\ UNCHANGED <<pc, entry, httpBody, given, request, prompt, opts, inflight, calls,
                   outcome, clientRes, serviceRes, httpRes, served, prev, transportCtx>>

NextRequest == Reset /\ UNCHANGED prev

\* the same step, with the call that ends written to the history variable
NextRequestRecorded == Reset /\ prev' = ThisCall

Next ==
    \/ \E body \in HTTPBodies : PostHaiku(body)
    \/ \E req \in Requests : CallCreateHaiku(req)
    \/ \E p \in Prompts, o \in Options : CallInvokeClaude(p, o)
    \/ \E out \in Outcomes : InvokeModelReturns(out)
    \/ \E cause \in ContextCauses : ContextDone(cause)
    \/ NextRequest

Spec == Init /\ [][Next]_vars

\* requests one after the other, through the service or the handler, with an
\* earlier one remembered: the one just over, or one before it
PairRequests ==
    {HaikuCommitRequest(cm, m) :
         cm \in {"", "fix: resolved login issue"},
         m \in {"", MoodReflective, MoodTechnical, "silly"}}

PairBodies ==
    {JBad, JObj(NoFields),
     JObj([commitMessage |-> JStr("fix: resolved login issue")]),
     JObj([commitMessage |-> JStr("fix: resolved login issue"), mood |-> JStr("silly")])}

NextPair ==
    \/ \E req \in PairRequests : CallCreateHaiku(req)
    \/ \E body \in PairBodies : PostHaiku(body)
    \/ \E out \in Outcomes : InvokeModelReturns(out)
    \/ NextRequestRecorded
    \/ NextRequest

SpecPair == Init /\ [][NextPair]_vars

----------------------------------------------------------------------------
\* Properties

\* the outbound request body of the transport call made for the current request
SentBody == inflight.Body

\* InvokeClaude was called directly with a non-empty prompt
DirectCall == entry = "client" /\ prompt # ""

\* C1: CreateHaiku with a non-empty mood other than "humorous", "reflective",
\* "technical" (case-sensitive) returns ErrBadHaikuRequest itself, whatever
\* the commit message, and neither the client nor the transport is invoked.
C1_InvalidMoodRejected ==
    (/\ entry \in {"service", "handler"}
     /\ request.Mood # ""
     /\ request.Mood \notin {"humorous", "reflective", "technical"})
    => /\ pc = "done"
       /\ serviceRes.returned
       /\ serviceRes.err = [sentinel |-> "ErrBadHaikuRequest", wrapped |-> FALSE,
                            text |-> "bad haiku request received"]
       /\ serviceRes.text = ""
       /\ clientRes = NoResult
       /\ calls = 0
       /\ inflight = NoInput

C1_Witness ==
    /\ entry = "service"
    /\ request = HaikuCommitRequest("fix: resolved login issue", "silly")
    /\ serviceRes.returned
    /\ ErrorsIs(serviceRes.err, "ErrBadHaikuRequest")
    /\ calls = 0

\* C2: InvokeClaude with the empty prompt fails with ErrInvalidRequest for
\* every options value (nil included) without ever calling InvokeModel, so
\* no transport behaviour can change the result.
C2_EmptyPromptRejected ==
    (entry = "client" /\ prompt = "")
    => /\ pc = "done"
       /\ clientRes.returned
       /\ ErrorsIs(clientRes.err, "ErrInvalidRequest")
       /\ clientRes.text = ""
       /\ calls = 0
       /\ inflight = NoInput
       /\ ~outcome.set

C2_Witness ==
    /\ entry = "client"
    /\ prompt = ""
    /\ ~opts.isNil
    /\ opts.MaxTokens = 100
    /\ ErrorsIs(clientRes.err, "ErrInvalidRequest")

\* the provider error a finished transport call returned
ProviderErrorReturned == outcome.set /\ outcome.failed /\ outcome.error.api

\* C3: for a provider API error whose code is one of the six table codes the
\* client returns exactly the mapped kind, and for a code that contains no
\* table code it returns the generic ErrModelInvocation.
C3_ClassifierTable ==
    ProviderErrorReturned
    => LET code == outcome.error.code
           kind == clientRes.err.sentinel
       IN /\ clientRes.returned
          /\ clientRes.text = ""
          /\ (code = "ValidationException" => kind = "ErrValidation")
          /\ (code = "ResourceNotFoundException" => kind = "ErrModelUnavailable")
          /\ (code = "ThrottlingException" => kind = "ErrThrottling")
          /\ (code = "ServiceQuotaExceededException" => kind = "ErrQuotaExceeded")
          /\ (code = "AccessDeniedException" => kind = "ErrValidation")
          /\ (code = "InternalServerException" => kind = "ErrModelInvocation")
          /\ ((\A c \in {"ValidationException", "ResourceNotFoundException",
                         "ThrottlingException", "ServiceQuotaExceededException",
                         "AccessDeniedException", "InternalServerException"} :
                   ~Contains(code, c))
              => kind = "ErrModelInvocation")

C3_Witness ==
    /\ ProviderErrorReturned
    /\ outcome.error.code = "AccessDeniedException"
    /\ clientRes.err.sentinel = "ErrValidation"
    /\ pc = "done"

\* the temperature a caller's options lead to: t when 0 < t <= 1.0, else 0.7
C4_Expected(o) ==
    IF ~o.isNil /\ o.Temperature > 0 /\ o.Temperature <= 10 THEN o.Temperature ELSE 7

C5_NonNegativeOverrides ==
    (DirectCall /\ ~opts.isNil)
    => Field(SentBody, "max_tokens")
           = JNum(IF opts.MaxTokens >= 0 THEN opts.MaxTokens ELSE 500)

\* C5, amended: the caller's maxTokens is the outbound max_tokens if and only
\* if it is strictly positive; 0 and every negative value leave it at 500.
C5_PositiveOverrides ==
    (DirectCall /\ ~opts.isNil)
    => Field(SentBody, "max_tokens")
           = JNum(IF opts.MaxTokens > 0 THEN opts.MaxTokens ELSE 500)

C5_Witness ==
    /\ DirectCall
    /\ ~opts.isNil
    /\ opts.MaxTokens = 0
    /\ pc = "transport"
    /\ Field(SentBody, "max_tokens") = JNum(500)

C7_Undecodable ==
    {JBad, JNum(1), JArr(<<>>),
     JObj([content |-> JStr("haiku")]),
     JObj([content |-> JArr(<<JStr("haiku")>>)]),
     JObj([content |-> JArr(<<JObj([text |-> JNum(1)])>>)])}

\* C7: when InvokeModel succeeds with a body that cannot be deserialized,
\* InvokeClaude returns ErrResponseParsing and no text.
C7_UnparseableBody ==
    (outcome.set /\ ~outcome.failed /\ outcome.Body \in C7_Undecodable)
    => /\ pc = "done"
       /\ clientRes.returned
       /\ ErrorsIs(clientRes.err, "ErrResponseParsing")
       /\ clientRes.text = ""

C7_Witness ==
    /\ outcome.set
    /\ ~outcome.failed
    /\ outcome.Body = JBad
    /\ ErrorsIs(clientRes.err, "ErrResponseParsing")

\* bodies that decode into a ClaudeResponse with no content block
C8_NoBlocks ==
    {JNull, JObj(NoFields), JObj([content |-> JNull]), JObj([content |-> JArr(<<>>)]),
     JObj([completion |-> JStr("Code changes merged")])}

\* C8: InvokeClaude never panics on a transport response; a body that decodes
\* with zero content blocks yields ErrResponseParsing.
C8_NoPanicOnEmptyContent ==
    /\ ~clientRes.panicked
    /\ pc # "panicked"
    /\ ((outcome.set /\ ~outcome.failed /\ outcome.Body \in C8_NoBlocks)
        => clientRes.returned /\ ErrorsIs(clientRes.err, "ErrResponseParsing"))

\* the status postHaiku owes a request, from what binding, the length check
\* (on the length in bytes, as the handler measures it) and the service gave
C9_Expected ==
    IF ~ShouldBindJSON(httpBody).ok THEN 400
    ELSE IF ByteLen(ShouldBindJSON(httpBody).req.CommitMessage) > MaxCommitLength THEN 400
    ELSE IF serviceRes.err = Nil THEN 200
    ELSE IF serviceRes.err.sentinel = "ErrBadHaikuRequest" THEN 400
    ELSE 500

\* C9: postHaiku answers 200 with {haiku} when the service succeeds, 400 with
\* {error, details} when binding fails, the commit message is too long or the
\* service returns ErrBadHaikuRequest, 500 with {error} for every other
\* service error, and no other status.
C9_StatusMapping ==
    (entry = "handler" /\ pc = "done")
    => /\ httpRes.written
       /\ httpRes.status = C9_Expected
       /\ (httpRes.status = 200
           => serviceRes.returned /\ httpRes.body = [haiku |-> serviceRes.text])
       /\ (httpRes.status = 400
           => /\ DOMAIN httpRes.body = {"error", "details"}
              /\ httpRes.body.error = InvalidRequest)
       /\ (httpRes.status = 500
           => serviceRes.returned /\ httpRes.body = [error |-> InternalServerError])

C9_Witness ==
    /\ entry = "handler"
    /\ pc = "done"
    /\ httpRes.status = 400
    /\ serviceRes.returned
    /\ serviceRes.err.sentinel = "ErrBadHaikuRequest"

\* C10: whichever downstream failure the client reported, and whatever the
\* provider's code, message, status or request id, the response is the same:
\* status 500 and the body {error: InternalServerError}, with no details.
C10_UniformFailureResponse ==
    (entry = "handler" /\ clientRes.returned /\ clientRes.err # Nil)
    => httpRes = [written |-> TRUE, status |-> 500,
                  body |-> [error |-> InternalServerError]]

C10_Witness ==
    /\ entry = "handler"
    /\ ErrorsIs(clientRes.err, "ErrThrottling")
    /\ outcome.error.http = "response"
    /\ outcome.error.status = 429
    /\ httpRes.status = 500


\* the error kinds of the client
ClientErrorKinds ==
    {"ErrInvalidRequest", "ErrModelInvocation", "ErrResponseParsing", "ErrModelUnavailable",
     "ErrQuotaExceeded", "ErrThrottling", "ErrValidation"}

\* C11: CreateHaiku fails in two ways only.  It returns ErrBadHaikuRequest
\* only for an invalid mood, before the client is called; it returns an error
\* wrapping ErrCreateHaiku, with an empty haiku, for every error the client
\* returns, whatever the kind of that error.  A client error is never
\* reported as ErrBadHaikuRequest and never becomes a success.
C11_TwoFailureKinds ==
    /\ \A k \in ClientErrorKinds :
           LET r == CreateHaikuEnd(Return("", Errorf(k, ": api error")))
           IN /\ r.returned
              /\ r.text = ""
              /\ r.err.sentinel = "ErrCreateHaiku"
              /\ r.err.wrapped
    /\ (entry \in {"service", "handler"} /\ serviceRes.returned /\ serviceRes.err # Nil)
           => /\ serviceRes.text = ""
              /\ \/ /\ serviceRes.err = [sentinel |-> "ErrBadHaikuRequest", wrapped |-> FALSE,
                                         text |-> "bad haiku request received"]
                    /\ request.Mood \notin {"", "humorous", "reflective", "technical"}
                    /\ clientRes = NoResult
                    /\ calls = 0
                 \/ /\ serviceRes.err.sentinel = "ErrCreateHaiku"
                    /\ serviceRes.err.wrapped
                    /\ clientRes.returned
                    /\ clientRes.err # Nil
                    /\ request.Mood \in {"", "humorous", "reflective", "technical"}
    /\ (entry \in {"service", "handler"} /\ clientRes.returned /\ clientRes.err # Nil)
           => /\ serviceRes.returned
              /\ serviceRes.text = ""
              /\ serviceRes.err.sentinel = "ErrCreateHaiku"

\* a validation error of the provider has come back through CreateHaiku
C11_Witness ==
    /\ entry = "service"
    /\ clientRes.returned
    /\ clientRes.err.sentinel = "ErrValidation"
    /\ serviceRes.returned
    /\ serviceRes.err.sentinel = "ErrCreateHaiku"


\* the call before this one and this one are CreateHaiku calls with the same
\* commit message, one with no mood and one with mood "reflective"
C12_Twins ==
    /\ prev.set
    /\ prev.entry = "service"
    /\ entry = "service"
    /\ prev.request.CommitMessage = request.CommitMessage
    /\ {prev.request.Mood, request.Mood} = {"", "reflective"}

\* C12: for every commit message and every behaviour of the client,
\* CreateHaiku with mood "" and CreateHaiku with mood "reflective" give the
\* client the same prompt and the same options, and, when the transport
\* behaves the same way, return the same result.
C12_EmptyMoodIsReflective ==
    C12_Twins
        => /\ prompt = prev.prompt
           /\ opts = prev.opts
           /\ inflight = prev.inflight
           /\ calls = 1
           /\ (outcome = prev.outcome) => /\ clientRes = prev.clientRes
                                          /\ serviceRes = prev.serviceRes

\* the twins have both returned a haiku
C12_Witness ==
    /\ C12_Twins
    /\ request.Mood = ""
    /\ request.CommitMessage = "fix: resolved login issue"
    /\ outcome = prev.outcome
    /\ serviceRes.returned
    /\ serviceRes.err = Nil
    /\ serviceRes.text = "Code changes merged"


\* CreateHaiku got past the mood check and called the client
C13_ClientCalled == entry \in {"service", "handler"} /\ calls = 1

\* C13: the prompt CreateHaiku gives the client is exactly
\* "Create a <mood> haiku from this commit message: <commitMessage>", where
\* <mood> is the mood of the request, "reflective" when that is empty, and
\* <commitMessage> is the commit message of the request, unchanged.
C13_PromptTemplate ==
    C13_ClientCalled
        => /\ prompt = "Create a "
                        \o (IF request.Mood = "" THEN "reflective" ELSE request.Mood)
                        \o " haiku from this commit message: "
                        \o request.CommitMessage
           /\ (request = [CommitMessage |-> "fix: resolved login issue", Mood |-> ""])
                 => prompt = "Create a reflective haiku from this commit message: fix: resolved login issue"
           /\ (request = [CommitMessage |-> "", Mood |-> "technical"])
                 => prompt = "Create a technical haiku from this commit message: "
           /\ Len(prompt) = 42 + Len(request.CommitMessage)
                             + (IF request.Mood = "" THEN 10 ELSE Len(request.Mood))

\* a humorous haiku was asked for through the handler
C13_Witness ==
    /\ entry = "handler"
    /\ calls = 1
    /\ request = [CommitMessage |-> "fix: resolved login issue", Mood |-> "humorous"]
    /\ prompt = "Create a humorous haiku from this commit message: fix: resolved login issue"


\* InvokeClaude was called directly with a non-empty prompt and nil options
C14_DefaultCall == entry = "client" /\ prompt # "" /\ opts = NilOptions

\* the messages of the outbound request body
C14_SentMessages == Field(SentBody, "messages").a

\* the transport returned a well-formed response: valid UTF-8 that decodes
\* into a ClaudeResponse with at least one block, the first with a text
C14_WellFormed ==
    /\ outcome.set
    /\ ~outcome.failed
    /\ UnmarshalOK(outcome.Body)
    /\ outcome.Body.j = "obj"
    /\ Field(outcome.Body, "content").j = "arr"
    /\ Len(Field(outcome.Body, "content").a) > 0
    /\ Field(outcome.Body, "content").a[1].j = "obj"
    /\ Field(Field(outcome.Body, "content").a[1], "text").j = "str"
    /\ ~Contains(Field(Field(outcome.Body, "content").a[1], "text").s, BadByte)

\* the text of the first content block of the response, as the transport gave it
C14_FirstText == Field(Field(outcome.Body, "content").a[1], "text").s

\* the prompt is the text of the single message sent, and the text of the
\* first block received is what InvokeClaude returns
C14_RoundTrip ==
    /\ calls = 1
    /\ Len(C14_SentMessages) = 1
    /\ Len(Field(C14_SentMessages[1], "content").a) = 1
    /\ Field(Field(C14_SentMessages[1], "content").a[1], "text")
          = [j |-> "str", s |-> prompt, n |-> 0, a |-> <<>>, o |-> NoFields]
    /\ C14_WellFormed
          => /\ pc = "done"
             /\ clientRes = [returned |-> TRUE, panicked |-> FALSE, text |-> C14_FirstText,
                             err |-> Nil]
             /\ (C14_FirstText = prompt) => clientRes.text = prompt

\* C14 as stated: for every non-empty prompt X with default options the
\* outbound request carries X unchanged as the text of its single message, and
\* a well-formed response whose first block has text T makes InvokeClaude
\* return T unchanged with no error, whatever the later blocks and the type
\* of the block.
C14_RoundTripAnyPrompt == C14_DefaultCall => C14_RoundTrip

\* C14, amended: the same for every non-empty prompt X that is valid UTF-8.
C14_RoundTripValidPrompt ==
    (C14_DefaultCall /\ ~Contains(prompt, BadByte)) => C14_RoundTrip

\* the prompt came back as the text of the response
C14_Witness ==
    /\ C14_DefaultCall
    /\ prompt = "Hello, world!"
    /\ C14_WellFormed
    /\ C14_FirstText = "Hello, world!"
    /\ clientRes.returned
    /\ clientRes.text = "Hello, world!"


\* the client returned a text and no error to CreateHaiku
C15_ClientSucceeded ==
    /\ entry \in {"service", "handler"}
    /\ clientRes.returned
    /\ clientRes.err = Nil

\* C15: whenever the client returns a text without error, CreateHaiku
\* returns that text verbatim as the haiku with no error, the empty text
\* included, and the handler answers 200 with that haiku.
C15_TextPassedThrough ==
    C15_ClientSucceeded
        => /\ serviceRes = [returned |-> TRUE, panicked |-> FALSE, text |-> clientRes.text,
                             err |-> [sentinel |-> "nil", wrapped |-> FALSE, text |-> ""]]
           /\ (entry = "handler")
                 => httpRes = [written |-> TRUE, status |-> 200,
                               body |-> [haiku |-> clientRes.text]]

\* the provider's text was empty and the handler answered 200 with it
C15_Witness ==
    /\ entry = "handler"
    /\ C15_ClientSucceeded
    /\ clientRes.text = ""
    /\ httpRes.status = 200
    /\ httpRes.body = [haiku |-> ""]


\* the transport call of the current request failed
C16_TransportFailed == outcome.set /\ outcome.failed

\* C16: for one inbound request InvokeClaude calls InvokeModel at most once;
\* after a transport failure of any kind no second call is made, and the
\* failure is returned to the caller right after that single call.
C16_SingleTransportCall ==
    /\ calls \in {0, 1}
    /\ (pc = "transport") => (calls = 1 /\ ~outcome.set)
    /\ outcome.set => calls = 1
    /\ C16_TransportFailed
          => /\ pc = "done"
             /\ calls = 1
             /\ clientRes.returned
             /\ clientRes.err # Nil
             /\ clientRes.text = ""
             /\ (entry \in {"service", "handler"})
                   => (serviceRes.returned /\ serviceRes.err # Nil)
             /\ (entry = "handler") => httpRes.status = 500

\* a throttled request has been answered after one transport call
C16_Witness ==
    /\ entry = "handler"
    /\ C16_TransportFailed
    /\ outcome.error.code = "ThrottlingException"
    /\ calls = 1
    /\ httpRes.written


\* C17: the context of the caller is the one every layer passes down, from
\* the handler through CreateHaiku and InvokeClaude to InvokeModel.  When the
\* transport call ends because that context was cancelled or timed out,
\* InvokeClaude fails with an error wrapping ErrModelInvocation, none of the
\* more specific sentinels, and no transport call is pending or made after it.
C17_ContextPassedDown ==
    /\ (calls = 1) => transportCtx = ctx.id
    /\ (calls = 1 /\ entry = "handler") => transportCtx = "request"
    /\ (calls = 0) => transportCtx = "none"
    /\ IsContextError(outcome)
          => /\ ctx.done \in {"context canceled", "context deadline exceeded"}
             /\ clientRes.returned
             /\ clientRes.text = ""
             /\ clientRes.err.sentinel = "ErrModelInvocation"
             /\ clientRes.err.wrapped
             /\ clientRes.err.text = "model invocation failed: " \o ctx.done
             /\ pc = "done"
             /\ calls = 1

\* the request's context was cancelled while InvokeModel was pending and the
\* handler has answered
C17_Witness ==
    /\ entry = "handler"
    /\ ctx = [id |-> "request", done |-> "context canceled"]
    /\ transportCtx = "request"
    /\ IsContextError(outcome)
    /\ clientRes.err.sentinel = "ErrModelInvocation"
    /\ httpRes.status = 500


\* the transport failed with an error that is no provider API error
C18_NonAPIFailure == outcome.set /\ outcome.failed /\ ~outcome.error.api

\* C18: a transport error that is not a provider API error, one with no
\* provider error code, becomes an error wrapping ErrModelInvocation that
\* carries the raw error, and never ErrThrottling, ErrValidation,
\* ErrModelUnavailable or ErrQuotaExceeded, whatever the text of the raw error.
C18_NonAPIIsGeneric ==
    C18_NonAPIFailure
        => /\ clientRes
                = [returned |-> TRUE, panicked |-> FALSE, text |-> "",
                   err |-> [sentinel |-> "ErrModelInvocation", wrapped |-> TRUE,
                            text |-> "model invocation failed: " \o outcome.error.raw]]
           /\ clientRes.err.sentinel
                \notin {"ErrThrottling", "ErrValidation", "ErrModelUnavailable",
                        "ErrQuotaExceeded"}

\* a connection error whose text names a provider error code was returned
C18_Witness ==
    /\ C18_NonAPIFailure
    /\ outcome.error.raw = "dial tcp: connection refused ThrottlingException"
    /\ clientRes.returned
    /\ clientRes.err.sentinel = "ErrModelInvocation"


\* the transport failed with a provider API error that came with an HTTP
\* response and a request identifier
C19_APIFailure ==
    /\ outcome.set
    /\ outcome.failed
    /\ outcome.error.api
    /\ outcome.error.http = "response"
    /\ outcome.error.requestID # ""

\* C19: for every provider API error the classified error carries the
\* provider's message text, the HTTP status of the response when there is
\* one, and, in its request-id field, the request identifier the provider
\* gave, not another attribute of the error such as its error code.
C19_RequestIDCarried ==
    C19_APIFailure
        => /\ NewBedrockError(outcome.error).Message
                = "api error " \o outcome.error.code \o ": " \o outcome.error.message
           /\ NewBedrockError(outcome.error).StatusCode = outcome.error.status
           /\ NewBedrockError(outcome.error).RequestID = outcome.error.requestID
           /\ clientRes.returned
           /\ Contains(clientRes.err.text, outcome.error.message)
           /\ Contains(clientRes.err.text, "status: " \o ToString(outcome.error.status))
           /\ Contains(clientRes.err.text, "request-id: " \o outcome.error.requestID \o ")")


\* a JSON string and a JSON number, written out
C20_Str(str) == [j |-> "str", s |-> str, n |-> 0, a |-> <<>>, o |-> NoFields]
C20_Num(num) == [j |-> "num", s |-> "", n |-> num, a |-> <<>>, o |-> NoFields]

\* the effective options of the call: the defaults 500 and 0.7 and no system
\* prompt, each replaced by a set field of the caller's options
C20_MaxTokens == IF ~opts.isNil /\ opts.MaxTokens > 0 THEN opts.MaxTokens ELSE 500
C20_Temperature ==
    IF ~opts.isNil /\ opts.Temperature > 0 /\ opts.Temperature <= 10
    THEN opts.Temperature ELSE 7
C20_System == IF opts.isNil THEN "" ELSE opts.System

\* the single message of the outbound body and its single block
C20_Message == Field(SentBody, "messages").a[1]
C20_Block == Field(C20_Message, "content").a[1]

\* everything of the transport call but the text of the block
C20_CallShape ==
    /\ inflight.ModelId = "global.anthropic.claude-haiku-4-5-20251001-v1:0"
    /\ inflight.ContentType = "application/json"
    /\ SentBody.j = "obj"
    /\ DOMAIN SentBody.o
          = {"max_tokens", "messages", "temperature"}
            \cup (IF C20_System = "" THEN {} ELSE {"system"})
    /\ Field(SentBody, "messages").j = "arr"
    /\ Len(Field(SentBody, "messages").a) = 1
    /\ DOMAIN C20_Message.o = {"content", "role"}
    /\ Field(C20_Message, "role") = C20_Str("user")
    /\ Field(C20_Message, "content").j = "arr"
    /\ Len(Field(C20_Message, "content").a) = 1
    /\ DOMAIN C20_Block.o = {"text", "type"}
    /\ Field(C20_Block, "type") = C20_Str("text")
    /\ Field(SentBody, "max_tokens") = C20_Num(C20_MaxTokens)
    /\ Field(SentBody, "temperature") = C20_Num(C20_Temperature)
    /\ (C20_System # "") => Field(SentBody, "system") = C20_Str(C20_System)

\* the prompt with each invalid byte replaced by U+FFFD is the string t
C20_Coerced(t) ==
    /\ Len(t) = Len(prompt)
    /\ \A i \in 1..Len(prompt) :
           SubSeq(t, i, i) = (IF SubSeq(prompt, i, i) = "^" THEN "?"
                              ELSE SubSeq(prompt, i, i))

C21_CallOver ==
    /\ entry \in {"service", "handler"}
    /\ serviceRes.returned \/ pc = "panicked"

\* C21: CreateHaiku leaves the request of its caller unchanged.  The default
\* "reflective" of an empty mood goes into the prompt only: after the call,
\* whether it succeeded or failed, the caller's request has the mood and the
\* commit message it was passed with.
C21_RequestUnchanged ==
    /\ (entry \in {"service", "handler"}) => request = given
    /\ (C21_CallOver /\ given.Mood = "")
          => /\ request.Mood = ""
             /\ request.CommitMessage = given.CommitMessage
             /\ prompt = "Create a reflective haiku from this commit message: "
                          \o given.CommitMessage

\* a request with no mood got a reflective haiku and still has no mood
C21_Witness ==
    /\ entry = "service"
    /\ given = [CommitMessage |-> "fix: resolved login issue", Mood |-> ""]
    /\ serviceRes.returned
    /\ serviceRes.err = Nil
    /\ serviceRes.text = "Code changes merged"
    /\ request.Mood = ""
    /\ prompt = "Create a reflective haiku from this commit message: fix: resolved login issue"


\* the body of the request bound to a HaikuCommitRequest
C22_Bound == entry = "handler" /\ ShouldBindJSON(httpBody).ok

\* the commit message of the request, as bound
C22_CommitMessage == ShouldBindJSON(httpBody).req.CommitMessage

\* C22: the handler answers 400 to every request whose commit message is
\* longer than the maximum of 500 characters, before it invokes the service,
\* so that the service and the transport see no call; a commit message of
\* exactly 500 characters is passed on to the service.
C22_LengthLimit ==
    /\ (C22_Bound /\ Len(C22_CommitMessage) > 500)
          => /\ httpRes.written
             /\ httpRes.status = 400
             /\ pc = "done"
             /\ calls = 0
             /\ serviceRes = NoResult
             /\ clientRes = NoResult
    /\ (C22_Bound /\ Len(C22_CommitMessage) = 500)
          => /\ given.CommitMessage = C22_CommitMessage
             /\ calls = 1 \/ serviceRes.returned


\* the body is a JSON object, or null, in which commitMessage is missing,
\* null or the empty string, and nothing else is of a wrong type
C23_NoCommitMessage ==
    /\ entry = "handler"
    /\ httpBody.j \in {"obj", "null"}
    /\ Field(httpBody, "commitMessage").j \in {"null", "str"}
    /\ Field(httpBody, "commitMessage").s = ""
    /\ Field(httpBody, "mood").j \in {"null", "str"}

\* C23: commitMessage is required and non-empty.  A request in which it is
\* missing or the empty string is answered 400 at binding, so that through
\* the HTTP path neither the service nor the transport is ever invoked with
\* an empty commit message.
C23_CommitMessageRequired ==
    /\ C23_NoCommitMessage
          => /\ httpRes.written
             /\ httpRes.status = 400
             /\ httpRes.body.error = InvalidRequest
             /\ Contains(httpRes.body.details, "failed on the 'required' tag")
             /\ pc = "done"
             /\ calls = 0
             /\ serviceRes = NoResult
             /\ clientRes = NoResult
             /\ inflight = NoInput
    /\ (entry = "handler" /\ (calls > 0 \/ serviceRes # NoResult \/ pc = "transport"))
          => /\ given.CommitMessage # ""
             /\ request.CommitMessage # ""

\* a request with a mood and no commit message was turned away
C23_Witness ==
    /\ C23_NoCommitMessage
    /\ "commitMessage" \notin DOMAIN httpBody.o
    /\ Field(httpBody, "mood").s = "technical"
    /\ httpRes.status = 400
    /\ calls = 0


\* the processing of an inbound request is over: postHaiku returned, or a
\* panic unwound it, after the transport call, if any, returned
C24_Processed == entry = "handler" /\ pc \in {"done", "panicked"}

C25_SameRequest ==
    /\ prev.set
    /\ entry \in {"service", "handler"}
    /\ prev.entry = entry
    /\ prev.httpBody = httpBody
    /\ prev.request = request

C26_Kind == clientRes.err.sentinel

\* the error code of the provider API error the transport failed with
C26_Code == outcome.error.code

\* C26: the error code of a provider error is classified by a case-sensitive
\* substring match, the first matching entry of the table winning, in the
\* order ValidationException, ResourceNotFoundException, ThrottlingException,
\* ServiceQuotaExceededException, AccessDeniedException,
\* InternalServerException.  A code that contains a table code, with a prefix
\* or a suffix, is classified like that code; a code that contains two table
\* codes gets the kind of the earlier entry; a code that differs from a table
\* code in letter case only is the generic ErrModelInvocation.
C26_SubstringFirstMatch ==
    (outcome.set /\ outcome.failed /\ outcome.error.api)
        => /\ clientRes.returned
           /\ clientRes.err.wrapped
           /\ (C26_Code = "com.amazonaws#ThrottlingException") => C26_Kind = "ErrThrottling"
           /\ (C26_Code = "ThrottlingExceptionV2") => C26_Kind = "ErrThrottling"
           /\ (C26_Code = "ServiceQuotaExceededException:ValidationException")
                 => C26_Kind = "ErrValidation"
           /\ (C26_Code = "InternalServerException/ResourceNotFoundException")
                 => C26_Kind = "ErrModelUnavailable"
           /\ (C26_Code \in {"throttlingexception", "VALIDATIONEXCEPTION", "UnknownError", ""})
                 => C26_Kind = "ErrModelInvocation"
           /\ C26_Kind
                = (IF Contains(C26_Code, "ValidationException") THEN "ErrValidation"
                   ELSE IF Contains(C26_Code, "ResourceNotFoundException")
                   THEN "ErrModelUnavailable"
                   ELSE IF Contains(C26_Code, "ThrottlingException") THEN "ErrThrottling"
                   ELSE IF Contains(C26_Code, "ServiceQuotaExceededException")
                   THEN "ErrQuotaExceeded"
                   ELSE IF Contains(C26_Code, "AccessDeniedException") THEN "ErrValidation"
                   ELSE "ErrModelInvocation")

\* a code with the quota code before the validation code was classified as a
\* validation failure
C26_Witness ==
    /\ outcome.set
    /\ outcome.failed
    /\ outcome.error.api
    /\ C26_Code = "ServiceQuotaExceededException:ValidationException"
    /\ clientRes.returned
    /\ C26_Kind = "ErrValidation"


\* the body the transport returned parses into a ClaudeResponse with at
\* least one content block
C27_Usable ==
    /\ outcome.set
    /\ ~outcome.failed
    /\ UnmarshalOK(outcome.Body)
    /\ outcome.Body.j = "obj"
    /\ Field(outcome.Body, "content").j = "arr"
    /\ Len(Field(outcome.Body, "content").a) > 0

\* the request is one the handler and the service accept
C27_Accepted ==
    /\ ShouldBindJSON(httpBody).ok
    /\ ByteLen(ShouldBindJSON(httpBody).req.CommitMessage) <= 500
    /\ ShouldBindJSON(httpBody).req.Mood \in {"", "humorous", "reflective", "technical"}

\* C27: errors are never swallowed on the way up.  The handler answers 200
\* if and only if the body bound, the commit message was within the length
\* limit, the mood was empty or valid, the one transport call returned
\* without error and its body parsed with at least one content block.
\* Whenever the transport returned an error or an unusable body, the client,
\* the service and the handler each report a failure: the response is never
\* 200 and never carries a haiku.
C27_ErrorsNeverSwallowed ==
    (entry = "handler" /\ pc \in {"done", "panicked"})
        => /\ (httpRes.written /\ httpRes.status = 200) <=> (C27_Accepted /\ C27_Usable)
           /\ (outcome.set /\ ~C27_Usable)
                 => /\ clientRes.returned
                    /\ clientRes.err # Nil
                    /\ serviceRes.returned
                    /\ serviceRes.err # Nil
                    /\ httpRes.written
                    /\ httpRes.status = 500
                    /\ "haiku" \notin DOMAIN httpRes.body


\* a transport call was made for a CreateHaiku call
C28_ServiceCall == entry \in {"service", "handler"} /\ calls = 1

\* C28: every outbound request that comes from CreateHaiku carries
\* max_tokens 500, temperature 0.7 and the haiku system instruction as its
\* system prompt.  The service gives the client the system prompt only, with
\* MaxTokens and Temperature at their zero values, and the merge of the client
\* puts the defaults in their place: no request of the service goes out with
\* max_tokens 0 or temperature 0.
C28_ServiceDefaults ==
    C28_ServiceCall
        => /\ opts = [isNil |-> FALSE, MaxTokens |-> 0, Temperature |-> 0,
                       System |-> HaikuSystemPrompt]
           /\ DOMAIN SentBody.o = {"max_tokens", "messages", "system", "temperature"}
           /\ Field(SentBody, "max_tokens")
                = [j |-> "num", s |-> "", n |-> 500, a |-> <<>>, o |-> NoFields]
           /\ Field(SentBody, "temperature")
                = [j |-> "num", s |-> "", n |-> 7, a |-> <<>>, o |-> NoFields]
           /\ Field(SentBody, "system")
                = [j |-> "str", s |-> HaikuSystemPrompt, n |-> 0, a |-> <<>>, o |-> NoFields]
           /\ Field(SentBody, "max_tokens").n # 0
           /\ Field(SentBody, "temperature").n # 0

\* a technical haiku was asked for through the handler and the request to
\* the provider is out
C28_Witness ==
    /\ entry = "handler"
    /\ pc = "transport"
    /\ calls = 1
    /\ request.Mood = "technical"
    /\ opts.MaxTokens = 0
    /\ opts.Temperature = 0
    /\ Field(SentBody, "max_tokens").n = 500
    /\ Field(SentBody, "temperature").n = 7


\* CreateHaiku was called with a mood that passes its validation
C29_MoodAccepted ==
    /\ \/ entry = "service"
       \/ entry = "handler" /\ (calls > 0 \/ serviceRes.returned)
    /\ given.Mood \in {"", "humorous", "reflective", "technical"}

\* C29: the prompt the service gives the client is never empty, for every
\* commit message, the empty one included, and every accepted mood.  On the
\* service path the client's rejection of an empty prompt is therefore out
\* of reach, and every request that passes the mood validation makes exactly
\* one transport call.
C29_PromptNeverEmpty ==
    C29_MoodAccepted
        => /\ prompt # ""
           /\ Len(prompt) >= 42 + Len(given.CommitMessage)
           /\ calls = 1
           /\ inflight # NoInput
           /\ clientRes.err.sentinel # "ErrInvalidRequest"
           /\ ~(serviceRes.returned /\ Contains(serviceRes.err.text, "prompt cannot be empty"))

\* a request with an empty commit message and no mood reached the transport
C29_Witness ==
    /\ entry = "service"
    /\ given = [CommitMessage |-> "", Mood |-> ""]
    /\ prompt = "Create a reflective haiku from this commit message: "
    /\ calls = 1
    /\ pc = "transport"


\* the client's kinds that errors.Is finds in err
C30_KindsOf(err) == {k \in ClientErrorKinds : ErrorsIs(err, k)}

\* C30: every error InvokeClaude returns is of exactly one kind of the
\* client's closed set (invalid request, response parsing, validation, model
\* unavailable, throttling, quota exceeded, generic model invocation): for
\* every prompt, options and transport outcome a returned error matches one
\* of the seven kinds and never two, its text begins with the text of that
\* kind, and a return without an error matches none.
C30_ClosedTaxonomy ==
    clientRes.returned
        => IF clientRes.err = Nil
           THEN C30_KindsOf(clientRes.err) = {}
           ELSE /\ Cardinality(C30_KindsOf(clientRes.err)) = 1
                /\ clientRes.err.wrapped
                /\ \A k \in C30_KindsOf(clientRes.err) :
                       /\ Len(clientRes.err.text) > Len(SentinelText(k))
                       /\ SubSeq(clientRes.err.text, 1, Len(SentinelText(k))) = SentinelText(k)

\* a direct call failed with a transport error that is no API error and came
\* back as a generic model invocation failure
C30_Witness ==
    /\ entry = "client"
    /\ outcome.failed
    /\ ~outcome.error.api
    /\ clientRes.returned
    /\ C30_KindsOf(clientRes.err) = {"ErrModelInvocation"}

==========================================================================
